---- MODULE Spec2Model ----
(***************************************************************************)
(* Householder QR factorization, the reflector applicator and the          *)
(* reconstruction of Q (linear_solve_stability.ipynb), in exact            *)
(* arithmetic.                                                             *)
(*                                                                         *)
(* A number is a record [n, d, r]:                                         *)
(*   d > 0          the real number (n/d) * sqrt(r), r squarefree, in      *)
(*                  lowest terms (zero is [0, 1, 1]);                      *)
(*   d = 0, n = 0   NaN (r = 0), the result of 0/0;                        *)
(*   d = 0, n = +-1 +-infinity (r = 0), the result of x/0 for x # 0;       *)
(*   d = 0, r = 1   a sum of two different radicals, which this number     *)
(*                  format cannot hold (the inputs are chosen so that no   *)
(*                  such sum is formed).                                   *)
(* Vectors are functions on 0..len-1 and matrices functions on 0..m-1 of   *)
(* rows, as the zero-based arrays of the source.                           *)
(***************************************************************************)
EXTENDS Integers, FiniteSets, TLC

\* ------------------------------------------------------------------------
\* Scalars
\* ------------------------------------------------------------------------
Abs(i) == IF i < 0 THEN -i ELSE i

RECURSIVE GCD(_, _)
GCD(a, b) == IF b = 0 THEN a ELSE GCD(b, a % b)

\* the largest t with t*t dividing N (N >= 1), searched upward from t
RECURSIVE SquarePart(_, _, _)
SquarePart(N, t, best) ==
    IF t * t > N THEN best
    ELSE SquarePart(N, t + 1, IF N % (t * t) = 0 THEN t ELSE best)

NaN == [n |-> 0, d |-> 0, r |-> 0]
Inf(s) == [n |-> s, d |-> 0, r |-> 0]
Irr == [n |-> 0, d |-> 0, r |-> 1]

IsNaN(a) == a = NaN
IsInf(a) == a.d = 0 /\ a.r = 0 /\ a.n # 0
IsFinite(a) == a.d > 0

\* (n/d)*sqrt(r) in lowest terms, d > 0
Mk(n, d, r) ==
    IF n = 0 THEN [n |-> 0, d |-> 1, r |-> 1]
    ELSE LET g == GCD(Abs(n), d) IN [n |-> n \div g, d |-> d \div g, r |-> r]

Rat(i) == Mk(i, 1, 1)
Zero == Rat(0)
One == Rat(1)
Two == Rat(2)

IsZero(a) == IsFinite(a) /\ a.n = 0
Sgn(a) == IF a.n > 0 THEN 1 ELSE IF a.n < 0 THEN -1 ELSE 0

\* a * b
Mul(a, b) ==
    IF a = Irr \/ b = Irr THEN Irr
    ELSE IF IsNaN(a) \/ IsNaN(b) THEN NaN
    ELSE IF IsInf(a) \/ IsInf(b)
         THEN IF IsZero(a) \/ IsZero(b) THEN NaN ELSE Inf(Sgn(a) * Sgn(b))
    ELSE IF a.n = 0 \/ b.n = 0 THEN Zero
    ELSE LET g == GCD(a.r, b.r)
         IN  Mk(a.n * b.n * g, a.d * b.d, (a.r \div g) * (b.r \div g))

\* a + b
Add(a, b) ==
    IF a = Irr \/ b = Irr THEN Irr
    ELSE IF IsNaN(a) \/ IsNaN(b) THEN NaN
    ELSE IF IsInf(a) /\ IsInf(b) THEN (IF a.n = b.n THEN a ELSE NaN)
    ELSE IF IsInf(a) THEN a
    ELSE IF IsInf(b) THEN b
    ELSE IF a.n = 0 THEN b
    ELSE IF b.n = 0 THEN a
    ELSE IF a.r = b.r THEN Mk(a.n * b.d + b.n * a.d, a.d * b.d, a.r)
    ELSE Irr

Neg(a) == IF IsFinite(a) \/ IsInf(a) THEN [a EXCEPT !.n = -a.n] ELSE a

\* a - b
Sub(a, b) == Add(a, Neg(b))

\* a / b; a zero divisor gives NaN (0/0) or an infinity, as IEEE division
Div(a, b) ==
    IF a = Irr \/ b = Irr THEN Irr
    ELSE IF IsNaN(a) \/ IsNaN(b) THEN NaN
    ELSE IF IsInf(b) THEN (IF IsInf(a) THEN NaN ELSE Zero)
    ELSE IF IsZero(b)
         THEN IF IsZero(a) THEN NaN ELSE Inf(Sgn(a))
    ELSE IF IsInf(a) THEN Inf(Sgn(a) * Sgn(b))
    ELSE Mul(a, Mk(Sgn(b) * b.d, Abs(b.n) * b.r, b.r))

\* the square root of a rational a >= 0
Sqrt(a) ==
    IF a = Irr \/ IsNaN(a) THEN a
    ELSE IF IsInf(a) THEN (IF a.n > 0 THEN a ELSE NaN)
    ELSE IF a.n < 0 THEN NaN
    ELSE IF a.n = 0 THEN Zero
    ELSE IF a.r # 1 THEN Irr
    ELSE LET sn == SquarePart(a.n, 1, 1)
             sd == SquarePart(a.d, 1, 1)
             rn == a.n \div (sn * sn)
             rd == a.d \div (sd * sd)
         IN  Mk(sn, sd * rd, rn * rd)

\* np.sign: -1, 0 or +1, and NaN for NaN; np.sign(0) is 0
sign(a) ==
    IF a = Irr \/ IsNaN(a) THEN a
    ELSE Rat(Sgn(a))

\* ------------------------------------------------------------------------
\* Vectors and matrices
\* ------------------------------------------------------------------------
size(x) == Cardinality(DOMAIN x)

RECURSIVE SumInt(_, _)
\* f[0] + ... + f[len-1] of integers
SumInt(f, len) == IF len = 0 THEN 0 ELSE SumInt(f, len - 1) + f[len - 1]

RECURSIVE SumTo(_, _)
\* f[0] + ... + f[len-1], accumulated left to right
SumTo(f, len) == IF len = 0 THEN Zero ELSE Add(SumTo(f, len - 1), f[len - 1])

\* np.dot of two one-dimensional arrays of the same length
dot(u, w) == SumTo([i \in DOMAIN u |-> Mul(u[i], w[i])], size(u))

\* np.linalg.norm(x, 2)
norm(x) == Sqrt(SumTo([i \in DOMAIN x |-> Mul(x[i], x[i])], size(x)))

\* x[k:]
VecTail(x, k) ==
    LET len == size(x)
    IN  [i \in 0 .. (IF k < len THEN len - k - 1 ELSE -1) |-> x[i + k]]

\* M[k:, j]
ColTail(M, k, j) ==
    LET m == size(M)
    IN  [i \in 0 .. (IF k < m THEN m - k - 1 ELSE -1) |-> M[i + k][j]]

\* np.zeros((m, n)) and np.zeros(m)
zeros(m, n) == [i \in 0 .. m - 1 |-> [j \in 0 .. n - 1 |-> Zero]]
zerosVec(m) == [i \in 0 .. m - 1 |-> Zero]

\* ------------------------------------------------------------------------
\* householder(A), one iteration of its loop over k (lines 57-62)
\* ------------------------------------------------------------------------
\* line 57: x = R[k:,k].copy()
extract(R, k) == ColTail(R, k, k)

\* line 58 with the other reflector: x[0] - sign(x[0])*norm(x)
perturb_cancel(x) == [x EXCEPT ![0] = Sub(x[0], Mul(sign(x[0]), norm(x)))]

\* line 58: x[0] = x[0] + np.sign(x[0])*np.linalg.norm(x,2)
perturb(x) == [x EXCEPT ![0] = Add(x[0], Mul(sign(x[0]), norm(x)))]

\* line 59: x = x/np.linalg.norm(x,2)
normalize(x) == LET nx == norm(x) IN [i \in DOMAIN x |-> Div(x[i], nx)]

\* line 60: V[k:,k] = x.copy()
store(V, k, x) ==
    [i \in DOMAIN V |->
        [j \in DOMAIN V[i] |-> IF j = k /\ i >= k THEN x[i - k] ELSE V[i][j]]]

\* lines 61-62: R[k:,j] = R[k:,j] - 2*V[k:,k]*np.dot(V[k:,k].T,R[k:,j]), j = k..n-1
reflect(V, R, k) ==
    LET v == ColTail(V, k, k)
    IN  [i \in DOMAIN R |->
            [j \in DOMAIN R[i] |->
                IF i >= k /\ j >= k
                THEN Sub(R[i][j], Mul(Mul(Two, v[i - k]), dot(v, ColTail(R, k, j))))
                ELSE R[i][j]]]

\* line 63: R[:n,:]
top(R, n) == [i \in 0 .. (IF size(R) < n THEN size(R) ELSE n) - 1 |-> R[i]]

\* line 56 as range(n): a reflection for the last column too
loop_end_full(n) == n

\* line 56: range(n-1) ends before k = n-1
loop_end(n) == n - 1

\* the whole function on an m x n matrix, for k = from .. n-2; "IndexError"
\* when x[0] is read from an empty slice
RECURSIVE householder_from(_, _, _, _)
householder_from(V, R, k, n) ==
    IF k >= loop_end(n) THEN [err |-> "none", V |-> V, R |-> top(R, n)]
    ELSE IF size(extract(R, k)) = 0 THEN [err |-> "IndexError", V |-> V, R |-> R]
    ELSE LET V1 == store(V, k, normalize(perturb(extract(R, k))))
         IN  householder_from(V1, reflect(V1, R, k), k + 1, n)

householder(M, m, n) == householder_from(zeros(m, n), M, 0, n)

\* ------------------------------------------------------------------------
\* apply_Q(V, x) (lines 65-70) and compute_Q(V) (lines 72-80)
\* ------------------------------------------------------------------------
\* line 69: x[k:] = x[k:] - 2*np.dot(V[k:,k],x[k:])*V[k:,k]
apply_step(V, x, k) ==
    LET v == ColTail(V, k, k)
        c == Mul(Two, dot(v, VecTail(x, k)))
    IN  [i \in DOMAIN x |-> IF i >= k THEN Sub(x[i], Mul(c, v[i - k])) ELSE x[i]]

\* lines 68-70 returning x as it is, without an error, when the lengths differ
RECURSIVE apply_Q_from_silent(_, _, _)
apply_Q_from_silent(V, x, k) ==
    IF k < 0 THEN [err |-> "none", val |-> x]
    ELSE IF size(ColTail(V, k, k)) # size(VecTail(x, k))
         THEN [err |-> "none", val |-> x]
    ELSE apply_Q_from_silent(V, apply_step(V, x, k), k - 1)

\* lines 68-70, for k = from down to 0; np.dot raises ValueError on two
\* arrays of different lengths
RECURSIVE apply_Q_from(_, _, _)
apply_Q_from(V, x, k) ==
    IF k < 0 THEN [err |-> "none", val |-> x]
    ELSE IF size(ColTail(V, k, k)) # size(VecTail(x, k))
         THEN [err |-> "ValueError", val |-> x]
    ELSE apply_Q_from(V, apply_step(V, x, k), k - 1)

apply_Q(V, x, n) == apply_Q_from(V, x, n - 1)

\* lines 77-78: x = np.zeros(m); x[k] = 1.
basis(m, k) == [i \in 0 .. m - 1 |-> IF i = k THEN One ELSE Zero]

\* lines 74-80 with line 79 storing into row k, Q[k,:] = apply_Q(V,x)
compute_Q_rows(V, m, n) ==
    IF m # n THEN [err |-> "IndexError", val |-> zeros(m, n)]
    ELSE [err |-> "none",
          val |-> [i \in 0 .. m - 1 |->
                     [j \in 0 .. n - 1 |-> apply_Q(V, basis(m, i), n).val[j]]]]

\* lines 74-80; x[k] = 1. raises IndexError when k >= m
compute_Q(V, m, n) ==
    IF m < n THEN [err |-> "IndexError", val |-> zeros(m, n)]
    ELSE [err |-> "none",
          val |-> [i \in 0 .. m - 1 |->
                     [j \in 0 .. n - 1 |-> apply_Q(V, basis(m, j), n).val[i]]]]

\* Q.T and np.dot(Q.T, b) (line 146); np.dot(M, x) in general
transpose(M, m, n) == [j \in 0 .. n - 1 |-> [i \in 0 .. m - 1 |-> M[i][j]]]
matvec(M, x) == [i \in DOMAIN M |-> dot(M[i], x)]
matmul(M, N, p) == [i \in DOMAIN M |-> [j \in 0 .. p - 1 |-> dot(M[i], [l \in DOMAIN N |-> N[l][j]])]]

\* ------------------------------------------------------------------------
\* Inputs
\* ------------------------------------------------------------------------
\* the largest entry of the caller's vector b, and the number of times
\* householder is invoked on the same A
MaxB == 1
MaxCalls == 2

\* shapes (m, n) of A: the square ones of the notebook, and wide ones (m < n)
Shapes == {<<1, 1>>, <<2, 2>>, <<3, 3>>, <<1, 2>>, <<2, 3>>, <<1, 3>>}

\* entries of column j of A
ColumnEntries(j) == IF j = 0 THEN {-3, 0, 4} ELSE IF j = 1 THEN {0, 1} ELSE {1}

IsSquareNumber(i) == \E t \in 0 .. i : t * t = i

\* no entry of M is a sum this number format cannot hold
Exact(M) == \A i \in DOMAIN M : \A j \in DOMAIN M[i] : M[i][j] # Irr

\* np.eye(m), the matrix of end-to-end scenario 1
Identity(m) == [i \in 0 .. m - 1 |-> [j \in 0 .. m - 1 |-> IF i = j THEN One ELSE Zero]]

\* the lists of n columns of length m, column j with entries in ColumnEntries(j)
RECURSIVE ColumnLists(_, _)
ColumnLists(m, n) ==
    IF n = 0 THEN {[j \in {} |-> 0]}
    ELSE {[j \in 0 .. n - 1 |-> IF j = n - 1 THEN col ELSE c[j]] :
            c \in ColumnLists(m, n - 1),
            col \in [0 .. m - 1 -> ColumnEntries(n - 1)]}

\* the m x n integer matrices with these entries whose first column has an
\* integer norm and on which every norm householder takes is rational, and
\* the identity
InputMatrices(m, n) ==
    {M \in {[i \in 0 .. m - 1 |-> [j \in 0 .. n - 1 |-> Rat(c[j][i])]] :
              c \in {d \in ColumnLists(m, n) :
                       IsSquareNumber(
                           SumInt([i \in 0 .. m - 1 |-> d[0][i] * d[0][i]], m))}} :
        LET h == householder(M, m, n) IN Exact(h.V) /\ Exact(h.R)}
    \cup (IF m = n THEN {Identity(m)} ELSE {})

\* the caller's vectors for a reflector set of m rows: every vector of length
\* m with entries in 0..MaxB, and constant vectors one shorter and one longer
Vectors(m) == {[i \in 0 .. m - 1 |-> Rat(f[i])] : f \in [0 .. m - 1 -> 0 .. MaxB]}
WrongLength(m) ==
    {[i \in 0 .. l - 1 |-> Rat(c)] : l \in {m - 1, m + 1}, c \in 0 .. MaxB}

\* lines 114 and 116: x = np.ones(N); b = np.dot(A, x)
ones(n) == [i \in 0 .. n - 1 |-> One]

\* ------------------------------------------------------------------------
\* State
\* ------------------------------------------------------------------------
VARIABLES
    A,      \* the caller's matrix
    b,      \* the caller's vector
    pc,     \* "idle", "loop" (inside householder), "returned", "raised"
    k,      \* householder's loop index
    V, R,   \* householder's arrays
    xs,     \* line 57's x of the last iteration, as extracted
    xp,     \* the same x after line 58
    ret,    \* what the last householder call returned
    first,  \* what the first householder call returned
    calls,  \* householder calls that returned
    last    \* the last call made on ret.V since householder returned: its name,
            \* argument and outcome

vars == <<A, b, pc, k, V, R, xs, xp, ret, first, calls, last>>

rows(M) == size(M)
cols(M) == size(M[0])

NoMatrix == zeros(0, 0)
NoVector == zerosVec(0)
NoCall == [op |-> "none", arg |-> NoVector, err |-> "none", val |-> NoVector]

\* line 55 as R = A: R is a second name of A
R_is_alias == FALSE

\* line 55: R = A.copy() is a new array, not a second name of A
R_is_copy == TRUE

Init ==
    /\ \E sh \in Shapes :
          /\ A \in InputMatrices(sh[1], sh[2])
          /\ b \in Vectors(sh[1]) \cup WrongLength(sh[1])
    /\ pc = "idle"
    /\ k = 0
    /\ V = NoMatrix
    /\ R = NoMatrix
    /\ xs = NoVector
    /\ xp = NoVector
    /\ ret = [V |-> NoMatrix, R |-> NoMatrix]
    /\ first = [V |-> NoMatrix, R |-> NoMatrix]
    /\ calls = 0
    /\ last = NoCall

\* lines 53-55
householder_enter ==
    /\ pc \in {"idle", "returned"}
    /\ calls < MaxCalls
    /\ pc' = "loop"
    /\ k' = 0
    /\ V' = zeros(rows(A), cols(A))
    /\ R' = A
    /\ xs' = NoVector
    /\ xp' = NoVector
    /\ last' = NoCall
    /\ UNCHANGED <<A, b, ret, first, calls>>

\* lines 56-62, one iteration
householder_step ==
    /\ pc = "loop"
    /\ k < loop_end(cols(A))
    /\ size(extract(R, k)) > 0
    /\ xs' = extract(R, k)
    /\ xp' = perturb(xs')
    /\ V' = store(V, k, normalize(xp'))
    /\ R' = reflect(V', R, k)
    /\ A' = IF R_is_copy THEN A ELSE R'
    /\ k' = k + 1
    /\ UNCHANGED <<b, pc, ret, first, calls, last>>

\* line 58 on an empty x: x[0] raises IndexError
householder_raise ==
    /\ pc = "loop"
    /\ k < loop_end(cols(A))
    /\ size(extract(R, k)) = 0
    /\ pc' = "raised"
    /\ xs' = extract(R, k)
    /\ UNCHANGED <<A, b, k, V, R, xp, ret, first, calls, last>>

\* line 63
householder_return ==
    /\ pc = "loop"
    /\ k >= loop_end(cols(A))
    /\ pc' = "returned"
    /\ ret' = [V |-> V, R |-> top(R, cols(A))]
    /\ first' = IF calls = 0 THEN ret' ELSE first
    /\ calls' = calls + 1
    /\ UNCHANGED <<A, b, k, V, R, xs, xp, last>>

\* apply_Q(V, b) on the returned V, handed a copy of the caller's b (line 69
\* overwrites its argument in place and line 70 returns that same array)
call_apply_Q ==
    /\ pc = "returned"
    /\ LET out == apply_Q(ret.V, b, cols(ret.V))
       IN  last' = [op |-> "apply_Q", arg |-> b, err |-> out.err, val |-> out.val]
    /\ UNCHANGED <<A, b, pc, k, V, R, xs, xp, ret, first, calls>>

\* compute_Q(V) on the returned V
call_compute_Q ==
    /\ pc = "returned"
    /\ LET out == compute_Q(ret.V, rows(ret.V), cols(ret.V))
       IN  last' = [op |-> "compute_Q", arg |-> NoVector, err |-> out.err, val |-> out.val]
    /\ UNCHANGED <<A, b, pc, k, V, R, xs, xp, ret, first, calls>>

\* lines 114-116 and 145-146 on the returned V: b = np.dot(A, np.ones(N));
\* Q = compute_Q(V); y = np.dot(Q.T, b)
driver ==
    /\ pc = "returned"
    /\ LET out == compute_Q(ret.V, rows(ret.V), cols(ret.V))
           rhs == matvec(A, ones(cols(A)))
       IN  last' = [op |-> "driver", arg |-> rhs, err |-> out.err,
                    val |-> IF out.err = "none"
                            THEN matvec(transpose(out.val, rows(ret.V), cols(ret.V)), rhs)
                            ELSE NoVector]
    /\ UNCHANGED <<A, b, pc, k, V, R, xs, xp, ret, first, calls>>

Next ==
    \/ householder_enter
    \/ householder_step
    \/ householder_raise
    \/ householder_return
    \/ call_apply_Q
    \/ call_compute_Q
    \/ driver

Spec == Init /\ [][Next]_vars

\* ------------------------------------------------------------------------
\* Properties
\* ------------------------------------------------------------------------
Square == rows(A) = cols(A)
Returned == pc = "returned"
AllFinite(M) == \A i \in DOMAIN M : \A j \in DOMAIN M[i] : IsFinite(M[i][j])
AllZero(x) == \A i \in DOMAIN x : x[i] = Zero
StepTaken == pc \in {"loop", "returned"} /\ size(xs) > 0
Symmetric(M) == \A i \in DOMAIN M : \A j \in DOMAIN M : M[i][j] = M[j][i]
Diag(d) == [i \in DOMAIN d |-> [j \in DOMAIN d |-> IF i = j THEN Rat(d[i]) ELSE Zero]]

\* C1: for a square A, Q = compute_Q(V) and the returned R satisfy Q.R = A,
\* entry by entry
C1_QR_reproduces_A ==
    (Returned /\ Square /\ last.op = "compute_Q")
        => matmul(last.val, ret.R, cols(A)) = A

\* C2, as claimed: apply_Q(V, b) is Q^T.b, Q being the matrix compute_Q(V) returns
C2_apply_Q_is_Qt ==
    (Returned /\ Square /\ last.op = "apply_Q" /\ last.err = "none")
        => last.val = matvec(transpose(compute_Q(ret.V, rows(A), cols(A)).val,
                                       rows(A), cols(A)), b)

\* C2, amended: apply_Q(V, b) is Q.b, Q being the matrix compute_Q(V) returns
\* (a NaN entry where Q.b has a NaN entry)
C2_apply_Q_is_Q ==
    (Returned /\ Square /\ last.op = "apply_Q" /\ last.err = "none")
        => last.val = matvec(compute_Q(ret.V, rows(A), cols(A)).val, b)

\* apply_Q has run on a V whose Q is finite and not symmetric, with a b on
\* which Q and Q^T differ
C2_Witness ==
    /\ Returned /\ Square /\ last.op = "apply_Q" /\ last.err = "none"
    /\ LET Q == compute_Q(ret.V, rows(A), cols(A)).val
       IN  /\ AllFinite(Q)
           /\ ~Symmetric(Q)
           /\ matvec(Q, b) # matvec(transpose(Q, rows(A), cols(A)), b)

\* C3: every entry of the returned R strictly below the diagonal is zero
C3_R_upper_triangular ==
    (Returned /\ Square)
        => \A i \in DOMAIN ret.R : \A j \in DOMAIN ret.R[i] : i > j => ret.R[i][j] = Zero

\* C4: Q = compute_Q(V) has orthonormal columns, Q^T.Q = I
C4_Q_orthonormal ==
    (Returned /\ Square /\ last.op = "compute_Q")
        => matmul(transpose(last.val, rows(A), cols(A)), last.val, cols(A))
               = Identity(cols(A))

\* C5: on a square A, an iteration that extracts a zero sub-column leaves
\* column k of V zero and puts no NaN and no infinity into V or R
C5_zero_subcolumn_is_identity_step ==
    (Square /\ StepTaken /\ AllZero(xs))
        => /\ AllZero(ColTail(V, k - 1, k - 1))
           /\ AllFinite(V)
           /\ AllFinite(R)

\* C6, as claimed: for A the 3 x 3 identity, R is the identity, V is zero and
\* apply_Q(V, b) is b
C6_identity_as_claimed ==
    (Returned /\ A = Identity(3))
        => /\ ret.R = Identity(3)
           /\ ret.V = zeros(3, 3)
           /\ (last.op = "apply_Q" /\ size(b) = 3) => (last.err = "none" /\ last.val = b)

\* C6, amended: for A the 3 x 3 identity, R is diag(-1, -1, 1), V holds e0 and
\* e1 in its columns 0 and 1 and a zero column 2, and apply_Q(V, b) is
\* (-b[0], -b[1], b[2])
C6_identity_amended ==
    (Returned /\ A = Identity(3))
        => /\ ret.R = Diag([i \in 0 .. 2 |-> IF i < 2 THEN -1 ELSE 1])
           /\ ret.V = Diag([i \in 0 .. 2 |-> IF i < 2 THEN 1 ELSE 0])
           /\ (last.op = "apply_Q" /\ size(b) = 3)
                  => /\ last.err = "none"
                     /\ last.val = [i \in 0 .. 2 |-> IF i < 2 THEN Neg(b[i]) ELSE b[i]]

\* apply_Q has run on the identity's V with a b it changes
C6_Witness ==
    /\ Returned /\ A = Identity(3)
    /\ last.op = "apply_Q" /\ size(b) = 3 /\ b[0] # Zero /\ b[2] # Zero

\* C7, as claimed: householder returns nothing for m < n, and apply_Q returns
\* nothing for a vector whose length is not the row count of V
C7_shape_mismatch_as_claimed ==
    /\ rows(A) < cols(A) => ~Returned
    /\ (Returned /\ last.op = "apply_Q" /\ size(b) # rows(ret.V)) => last.err # "none"

\* C7, amended: householder raises IndexError exactly when m <= n-2 and
\* returns V and R when m = n-1; apply_Q on a V of n >= 1 columns raises
\* ValueError exactly when the vector's length is not the row count of V
C7_shape_mismatch_amended ==
    /\ Returned => rows(A) >= cols(A) - 1
    /\ pc = "raised" => rows(A) <= cols(A) - 2
    /\ (pc = "loop" /\ k >= loop_end(cols(A))) => rows(A) >= cols(A) - 1
    /\ (Returned /\ last.op = "apply_Q")
           => (last.err = "ValueError" <=> size(b) # rows(ret.V))

\* householder has returned for a matrix of fewer rows than columns, and
\* apply_Q has raised on a vector of the wrong length
C7_Witness ==
    /\ Returned /\ rows(A) < cols(A)
    /\ last.op = "apply_Q" /\ size(b) # rows(ret.V) /\ last.err = "ValueError"

\* C8: no step changes A, and every return of householder on the same A
\* returns the V and R of the first
C8_reuse_is_idempotent ==
    [][A' = A /\ (pc' = "returned" => ret' = first')]_vars

\* householder has returned a second time, after a call on the first outputs,
\* with an R that differs from A
C8_Witness ==
    /\ Returned /\ calls = 2 /\ last.op = "driver" /\ ret.R # A /\ ret = first

\* C9: on a 1 x 1 matrix householder takes no reflection step and returns
\* R = A and V = [0], and compute_Q(V) is [1] or [-1]
C9_one_by_one ==
    (rows(A) = 1 /\ cols(A) = 1)
        => /\ pc # "raised"
           /\ size(xs) = 0
           /\ Returned => (ret.R = A /\ ret.V = zeros(1, 1))
           /\ (Returned /\ last.op = "compute_Q")
                  => (last.err = "none" /\ last.val \in {Identity(1), Diag([i \in {0} |-> -1])})

\* compute_Q has run on the V of the 1 x 1 zero matrix
C9_Witness ==
    /\ Returned /\ A = zeros(1, 1) /\ last.op = "compute_Q"

\* sign with sign(0) taken as +1
sign_plus(a) == IF IsZero(a) THEN One ELSE sign(a)

\* C10: on a square A, the leading entry of the extracted sub-column x
\* becomes x[0] + sign(x[0]).||x||, with sign(0) = +1
C10_sign_of_zero_is_plus ==
    (Square /\ StepTaken) => xp[0] = Add(xs[0], Mul(sign_plus(xs[0]), norm(xs)))

====
